---- MODULE Spec2Model ----
(***************************************************************************)
(* State-machine model of dataplicity/client.py: the Client's run loop     *)
(* (run_forever / poll), the disk-usage report (disk_poll), the sync cycle *)
(* (sync / _sync / _sync_meta / _check_meta) and set_m2m_identity.         *)
(*                                                                         *)
(* Two threads share one Client: "main" runs run_forever, "ext" is an      *)
(* external caller that invokes poll(), sync() or set_m2m_identity().      *)
(* jsonrpc (Batch), device_meta and disk_tools are not part of the source  *)
(* tree; the batch protocol is modelled from its written contract and the  *)
(* collaborators' outcomes are inputs.                                     *)
(***************************************************************************)
EXTENDS Integers, Sequences, FiniteSets, TLC

(* ---- bounds of the model ---- *)
\* the clock stops at MaxTime
MaxTime == 3

(* ---- configuration ---- *)
\* conf.get_float("daemon", "poll", ...): seconds between two polls
poll_rate_seconds == 1
\* conf.get_integer("daemon", "disk_poll", ...): seconds between two disk reports
disk_poll_rate_seconds == 2

Threads == {"main", "ext"}
None == "None"
Identities == {"", "id1"}

(* ---- exceptions ---- *)
\* SystemExit and KeyboardInterrupt derive from BaseException, not Exception
BaseOnly == {"SystemExit", "KeyboardInterrupt"}

(* ---- the calls the client queues ---- *)
AuthCall == [id |-> "authenticate_result", method |-> "device.check_auth"]
DiskCall == [id |-> "set_disk_space_result", method |-> "device.set_disk_space"]
AssociateCall == [id |-> "associate_result", method |-> "m2m.associate"]
MetaIds == <<"set_agent_version_result", "set_machine_type_result",
             "set_os_version_result", "set_uname_result">>
MetaCalls ==
    << [id |-> "set_agent_version_result", method |-> "device.set_agent_version"],
       [id |-> "set_machine_type_result", method |-> "device.set_machine_type"],
       [id |-> "set_os_version_result", method |-> "device.set_os_version"],
       [id |-> "set_uname_result", method |-> "device.set_uname"] >>

Range(s) == {s[i] : i \in 1..Len(s)}
Ids(calls) == {calls[i].id : i \in 1..Len(calls)}

(* ---- jsonrpc.Batch ---- *)
\* a thread's local `batch`: owner is the thread whose cycle opened it
NoBatch == [open |-> FALSE, owner |-> None, calls |-> <<>>, abandoned |-> FALSE,
            sent |-> FALSE, faults |-> {}]
\* self.remote.batch()
NewBatch(t) == [NoBatch EXCEPT !.open = TRUE, !.owner = t]
\* batch.call_with_id(result_name, method, ...)
CallWithId(b, c) == [b EXCEPT !.calls = Append(@, c)]
\* batch.abandon()
Abandon(b) == [b EXCEPT !.abandoned = TRUE]
\* The outcomes of leaving the batch's scope normally: an abandoned batch is
\* not sent. Otherwise one request is made: an unreachable server raises and
\* leaves the batch unsent; else the batch is sent and every slot holds a
\* result ("success": all of them) or a fault ("faulty": some of them).
BatchExit(b) ==
    IF b.abandoned THEN {[srv |-> None, exc |-> None, batch |-> b]}
    ELSE {[srv |-> "unreachable", exc |-> "ServerUnreachableError", batch |-> b]}
         \cup {[srv |-> "success", exc |-> None, batch |-> [b EXCEPT !.sent = TRUE]]}
         \cup {[srv |-> "faulty", exc |-> None,
                 batch |-> [b EXCEPT !.sent = TRUE, !.faults = F]] :
                   F \in (SUBSET Ids(b.calls)) \ {{}}}
\* batch.get_result(name): the exception it raises, or None
GetResult(b, name) ==
    IF ~b.sent \/ name \notin Ids(b.calls) THEN "NotSentError"
    ELSE IF name \in b.faults THEN "JSONRPCError"
    ELSE None
\* batch.check(*names): raises the first fault among the named slots
RECURSIVE Check(_, _)
Check(b, names) ==
    IF names = <<>> THEN None
    ELSE IF GetResult(b, Head(names)) # None THEN GetResult(b, Head(names))
    ELSE Check(b, Tail(names))

VARIABLES
    sent_meta,            \* self._sent_meta
    sync_lock,            \* self._sync_lock: "free" or the thread holding it
    exit_event,           \* self.exit_event is set
    next_disk_poll_time,  \* self.next_disk_poll_time
    auth_token,           \* self.auth_token: None or "token"
    init_error,           \* the exception raised inside _init, or None
    now,                  \* time.time()
    pc,                   \* position of each thread
    op,                   \* the top-level method each thread is running
    batch,                \* each thread's local `batch`
    t_now,                \* disk_poll's local `now`
    meta,                 \* outcome of device_meta.get_meta() in the cycle
    exc,                  \* exception propagating in the thread, or that ended its call
    logged,               \* the exception sync() reported with log.error in the call
    opened,               \* batches opened by the thread's current call
    requests,             \* network requests made by the thread's current call
    result,               \* how the thread's last top-level call ended
    retval,               \* value returned by set_m2m_identity
    identity,             \* argument of set_m2m_identity
    closes                \* close() calls of the current run_forever invocation

vars == <<sent_meta, sync_lock, exit_event, next_disk_poll_time, auth_token,
          init_error, now,
          pc, op, batch, t_now, meta, exc, logged, opened, requests, result,
          retval, identity, closes>>

shared == <<sent_meta, sync_lock, exit_event, next_disk_poll_time, auth_token,
            init_error>>
m2m == <<retval, identity>>

\* Client.__init__ and Client._init, with self._sent_meta = flag; reading
\* the configuration or resolving the serial / auth value may raise
Constructed(flag) ==
    /\ sent_meta = flag
    /\ sync_lock = "free"
    /\ exit_event = FALSE
    /\ now = 0
    /\ next_disk_poll_time = now
    /\ init_error \in {None, "IOError"}
    /\ auth_token \in (IF init_error = None THEN {None, "token"} ELSE {None})
    /\ pc = [t \in Threads |-> "idle"]
    /\ op = [t \in Threads |-> None]
    /\ batch = [t \in Threads |-> NoBatch]
    /\ t_now = [t \in Threads |-> 0]
    /\ meta = [t \in Threads |-> None]
    /\ exc = [t \in Threads |-> None]
    /\ logged = [t \in Threads |-> None]
    /\ opened = [t \in Threads |-> 0]
    /\ requests = [t \in Threads |-> 0]
    /\ result = [t \in Threads |-> None]
    /\ retval = None
    /\ identity = ""
    /\ closes = 0

\* `self._sent_meta = False`
Init == Constructed(FALSE)

\* (variant: _init logs the failure and returns)
InitRaises_LogOnly(e) == None
\* _init: `except: log.exception(...); raise` re-raises what the try block
\* raised, and __init__ lets it through
InitRaises(e) == e
\* `Client(conf_path)` produced an instance: only then is there an object
\* whose methods can be called
ClientExists == InitRaises(init_error) = None

(* ---- control flow shared by the operations ---- *)
\* where a thread goes when poll() or sync() returns normally
AfterCall(t) == IF op[t] = "run_forever" THEN "wait" ELSE "idle"
\* where a thread goes when an exception leaves poll(), sync() or
\* set_m2m_identity(): run_forever's handlers, or the external caller
EscapePc(t) == IF op[t] = "run_forever" THEN "finally" ELSE "idle"
Returned(t) == [result EXCEPT ![t] = IF op[t] = "run_forever" THEN @ ELSE "returned"]
Raised(t) == [result EXCEPT ![t] = IF op[t] = "run_forever" THEN @ ELSE "raised"]

\* (variant: the `except KeyboardInterrupt` clause is missing)
RunForeverSwallows_OnlySystemExit(k) == k \in {"SystemExit"}
\* run_forever: `except SystemExit` and `except KeyboardInterrupt` return
RunForeverSwallows(k) == k \in {"SystemExit", "KeyboardInterrupt"}
\* (variant: close() follows the try statement instead of being its
\* `finally` clause, so an escaping exception skips it)
CloseCalls_AfterTry(k) == IF k = None \/ RunForeverSwallows(k) THEN 1 ELSE 0
\* run_forever: `finally: self.close()` runs once however the try block is
\* left, by exception k or normally (None)
CloseCalls(k) == 1
\* (variant: the loop ignores the stop signal)
StopSeen_Never(ev) == FALSE
\* `self.exit_event.wait(...)` returns true when the event is set, which
\* ends the `while not ...` loop
StopSeen(ev) == ev
\* (variant: a bare `except:`, which catches everything)
SyncCatches_Bare(k) == TRUE
\* sync: `except Exception as e`
SyncCatches(k) == k \notin BaseOnly
\* (variant: sync calls _sync without taking the lock)
LockFree_Always(l) == TRUE
\* `with self._sync_lock` may be entered
LockFree(l) == l = "free"
\* (variant: acquire() and release() around _sync without try/finally, so
\* that an exception leaves the lock held)
Released_OnSuccessOnly(l, k) == IF k = None THEN "free" ELSE l
\* the lock when `with self._sync_lock` is left by exception k or normally
Released(l, k) == "free"
\* disk_poll: `if now >= self.next_disk_poll_time`
DiskDue(t, due) == t >= due
\* (variant: the due-time advances from the prior due-time, catching up)
NextDue_CatchUp(t, due) == due + disk_poll_rate_seconds
\* disk_poll: `self.next_disk_poll_time = now + self.disk_poll_rate_seconds`
NextDue(t, due) == t + disk_poll_rate_seconds
\* (variant: the due branch measures first and leaves the due-time alone)
DueBranch_ProbeFirst == "disk_usage"
\* the first statement of disk_poll's due branch: the due-time is advanced
\* before disk_usage('/') is called and before the batch is opened
DueBranch == "disk_arm"
\* the calls disk_poll queues in its batch
DiskPollCalls == <<AuthCall, DiskCall>>
\* (variant: the disk report is queued in the sync batch)
SyncFirstCalls_WithDisk == <<AuthCall, DiskCall>>
\* the call _sync queues before the metadata calls
SyncFirstCalls == <<AuthCall>>
\* (variant: _sync_meta collects the metadata whatever the flag says)
Collected_IgnoresFlag(sent, ok) == ok
\* _sync_meta queues the four metadata calls: not when `self._sent_meta`
\* (it returns at once), and not when get_meta() raised (ok is false)
Collected(sent, ok) == ~sent /\ ok
\* the value _sync_meta returns: False when the metadata was already sent;
\* both the `except` and the `else` branch fall off the end, returning None
SyncMetaReturn(sent, collected) == IF sent THEN "False" ELSE None
\* Python truth of that value
Truthy(v) == v = "True"
\* (variant: _sync_meta marks the metadata sent as soon as it is queued)
SyncMetaFlag_OnQueue(sent, collected) == sent \/ collected
\* the flag after _sync_meta ran (it never writes the flag)
SyncMetaFlag(sent, collected) == sent
\* _check_meta: the exception it raises (the `except` branch uses self.log,
\* which Client does not have), or None
CheckMetaExc(b, sent) ==
    IF sent THEN None
    ELSE IF Check(b, MetaIds) # None THEN "AttributeError" ELSE None
\* _check_meta: the flag afterwards
CheckMetaFlag(b, sent) ==
    IF sent THEN sent ELSE (Check(b, MetaIds) = None)
\* (variant: the results are read without the `if batch.sent:` test)
VerifyExc_Unguarded(b, sent) ==
    IF GetResult(b, "authenticate_result") # None
    THEN GetResult(b, "authenticate_result")
    ELSE CheckMetaExc(b, sent)
\* _sync after the batch's scope: `if batch.sent:` get_result, _check_meta
VerifyExc(b, sent) ==
    IF ~b.sent THEN None
    ELSE IF GetResult(b, "authenticate_result") # None
         THEN GetResult(b, "authenticate_result")
    ELSE CheckMetaExc(b, sent)
VerifyFlag(b, sent) ==
    IF b.sent /\ GetResult(b, "authenticate_result") = None
    THEN CheckMetaFlag(b, sent) ELSE sent

RECURSIVE AddCalls(_, _)
AddCalls(b, calls) ==
    IF calls = <<>> THEN b ELSE AddCalls(CallWithId(b, Head(calls)), Tail(calls))

(* ---- run_forever ---- *)
\* run_forever is called: it enters the try block and polls
RunForever ==
    /\ ClientExists
    /\ pc["main"] = "idle"
    /\ closes' = 0
    /\ op' = [op EXCEPT !["main"] = "run_forever"]
    /\ pc' = [pc EXCEPT !["main"] = "poll"]
    /\ exc' = [exc EXCEPT !["main"] = None]
    /\ result' = [result EXCEPT !["main"] = None]
    /\ UNCHANGED <<shared, now, batch, t_now, meta, opened, requests, m2m>>
    /\ logged' = [logged EXCEPT !["main"] = None]

\* `while not self.exit_event.wait(self.poll_rate_seconds)`
Wait ==
    /\ pc["main"] = "wait"
    /\ IF StopSeen(exit_event)
       THEN /\ pc' = [pc EXCEPT !["main"] = "finally"]
            /\ now' = now
       ELSE /\ now + poll_rate_seconds <= MaxTime
            /\ now' = now + poll_rate_seconds
            /\ pc' = [pc EXCEPT !["main"] = "poll"]
    /\ UNCHANGED <<shared, op, batch, t_now, meta, exc, opened, requests,
                   result,
                   m2m, closes, logged>>

\* the except clauses and `finally: self.close()`
RunForeverExit ==
    /\ pc["main"] = "finally"
    /\ closes' = closes + CloseCalls(exc["main"])
    /\ result' = [result EXCEPT !["main"] =
                     IF exc["main"] = None \/ RunForeverSwallows(exc["main"])
                     THEN "returned" ELSE "raised"]
    /\ pc' = [pc EXCEPT !["main"] = "idle"]
    /\ UNCHANGED <<shared, now, op, batch, t_now, meta, exc, logged, opened,
                   requests, m2m>>

\* poll: `t = time.time()`, then disk_poll and sync
Poll(t) ==
    /\ pc[t] = "poll"
    /\ pc' = [pc EXCEPT ![t] = "disk_poll"]
    /\ opened' = [opened EXCEPT ![t] = 0]
    /\ requests' = [requests EXCEPT ![t] = 0]
    /\ UNCHANGED <<shared, now, op, batch, t_now, meta, exc, result, m2m,
                   closes>>
    /\ logged' = [logged EXCEPT ![t] = None]

\* a call (or poll cycle) of thread t is over: its local f is gone
Drop(f, t, v) == [f EXCEPT ![t] = v]

(* ---- disk_poll ---- *)
\* `now = time.time()` and the due test
DiskPollCheck(t) ==
    /\ pc[t] = "disk_poll"
    /\ IF DiskDue(now, next_disk_poll_time)
       THEN /\ t_now' = [t_now EXCEPT ![t] = now]
            /\ pc' = [pc EXCEPT ![t] = DueBranch]
       ELSE /\ t_now' = t_now
            /\ pc' = [pc EXCEPT ![t] = "sync"]
    /\ UNCHANGED <<shared, now, op, batch, meta, exc, opened, requests, result,
                   m2m, closes, logged>>

\* `self.next_disk_poll_time = now + self.disk_poll_rate_seconds`
DiskPollArm(t) ==
    /\ pc[t] = "disk_arm"
    /\ next_disk_poll_time' = NextDue(t_now[t], next_disk_poll_time)
    /\ t_now' = Drop(t_now, t, 0)
    /\ pc' = [pc EXCEPT ![t] = "disk_usage"]
    /\ UNCHANGED <<sent_meta, sync_lock, exit_event, auth_token, init_error,
                   now, op, batch,
                   meta, exc, opened, requests, result, m2m, closes, logged>>

\* an exception k leaves poll() from disk_poll
PollRaises(t, k) ==
    /\ exc' = [exc EXCEPT ![t] = k]
    /\ batch' = Drop(batch, t, NoBatch)
    /\ pc' = [pc EXCEPT ![t] = EscapePc(t)]
    /\ result' = Raised(t)

\* `disk_space = disk_usage('/')`, then the batch is opened and filled
DiskUsage(t) ==
    /\ pc[t] = "disk_usage"
    /\ \E ok \in BOOLEAN :
         IF ok
         THEN /\ batch' = [batch EXCEPT ![t] = AddCalls(NewBatch(t), DiskPollCalls)]
              /\ opened' = [opened EXCEPT ![t] = @ + 1]
              /\ pc' = [pc EXCEPT ![t] = "disk_exit"]
              /\ UNCHANGED <<exc, result>>
         ELSE /\ PollRaises(t, "OSError")
              /\ UNCHANGED opened
    /\ UNCHANGED <<shared, now, op, t_now, meta, requests, m2m, closes, logged>>

\* the end of `with self.remote.batch() as batch` in disk_poll
DiskBatchExit(t) ==
    /\ pc[t] = "disk_exit"
    /\ \E o \in BatchExit(batch[t]) :
         /\ requests' = [requests EXCEPT ![t] = IF o.srv = None THEN @ ELSE @ + 1]
         /\ IF o.exc = None
            THEN /\ batch' = [batch EXCEPT ![t] = o.batch]
                 /\ pc' = [pc EXCEPT ![t] = "sync"]
                 /\ UNCHANGED <<exc, result>>
            ELSE PollRaises(t, o.exc)
    /\ UNCHANGED <<shared, now, op, t_now, meta, opened, m2m, closes, logged>>

(* ---- sync ---- *)
\* _sync is left, by exception k or normally (None): `with self._sync_lock`
\* releases the lock; an exception goes to sync's except clause
LeaveSync(t, k) ==
    /\ sync_lock' = Released(sync_lock, k)
    /\ batch' = Drop(batch, t, NoBatch)
    /\ meta' = Drop(meta, t, None)
    /\ exc' = [exc EXCEPT ![t] = k]
    /\ IF k = None
       THEN /\ pc' = [pc EXCEPT ![t] = AfterCall(t)]
            /\ result' = Returned(t)
       ELSE /\ pc' = [pc EXCEPT ![t] = "sync_except"]
            /\ result' = result

\* `with self._sync_lock:`
Sync(t) ==
    /\ pc[t] = "sync"
    /\ LockFree(sync_lock)
    /\ sync_lock' = t
    /\ pc' = [pc EXCEPT ![t] = "_sync"]
    /\ UNCHANGED <<sent_meta, exit_event, next_disk_poll_time, auth_token, init_error,
                   
                   now, op,
                   batch, t_now, meta, exc, opened, requests, result, m2m,
                   closes, logged>>

\* _sync: make_sync_id, the batch is opened, the authenticate call queued
SyncOpen(t) ==
    /\ pc[t] = "_sync"
    /\ batch' = [batch EXCEPT ![t] = AddCalls(NewBatch(t), SyncFirstCalls)]
    /\ opened' = [opened EXCEPT ![t] = @ + 1]
    /\ pc' = [pc EXCEPT ![t] = "sync_meta"]
    /\ UNCHANGED <<shared, now, op, t_now, meta, exc, requests, result, m2m,
                   closes, logged>>

\* `if not self._sync_meta(batch): batch.abandon()`
SyncMeta(t) ==
    /\ pc[t] = "sync_meta"
    /\ \E ok \in BOOLEAN :
         LET collected == Collected(sent_meta, ok)
             queued == IF collected THEN AddCalls(batch[t], MetaCalls) ELSE batch[t]
             r == SyncMetaReturn(sent_meta, collected)
         IN  /\ meta' = [meta EXCEPT ![t] = IF sent_meta THEN "skipped"
                                            ELSE IF ok THEN "ok" ELSE "failed"]
             /\ batch' = [batch EXCEPT ![t] = IF ~Truthy(r) THEN Abandon(queued)
                                              ELSE queued]
             /\ sent_meta' = SyncMetaFlag(sent_meta, collected)
    /\ pc' = [pc EXCEPT ![t] = "sync_exit"]
    /\ UNCHANGED <<sync_lock, exit_event, next_disk_poll_time, auth_token, init_error,
                   
                   now, op,
                   t_now, exc, opened, requests, result, m2m, closes, logged>>

\* the end of `with self.remote.batch() as batch` in _sync
SyncBatchExit(t) ==
    /\ pc[t] = "sync_exit"
    /\ \E o \in BatchExit(batch[t]) :
         /\ requests' = [requests EXCEPT ![t] = IF o.srv = None THEN @ ELSE @ + 1]
         /\ IF o.exc = None
            THEN /\ batch' = [batch EXCEPT ![t] = o.batch]
                 /\ pc' = [pc EXCEPT ![t] = "sync_verify"]
                 /\ UNCHANGED <<sync_lock, meta, exc, result>>
            ELSE LeaveSync(t, o.exc)
    /\ UNCHANGED <<sent_meta, exit_event, next_disk_poll_time, auth_token, init_error,
                   
                   now, op,
                   t_now, opened, m2m, closes, logged>>

\* `if batch.sent:` get_result and _check_meta; then _sync is left
SyncVerify(t) ==
    /\ pc[t] = "sync_verify"
    /\ sent_meta' = VerifyFlag(batch[t], sent_meta)
    /\ LeaveSync(t, VerifyExc(batch[t], sent_meta))
    /\ UNCHANGED <<exit_event, next_disk_poll_time, auth_token, init_error,
                   now, op, t_now,
                   opened, requests, m2m, closes, logged>>

\* sync's `except Exception as e: log.error(...)`: the exception is logged and
\* sync returns, or it is no Exception and goes on to the caller
SyncExcept(t) ==
    /\ pc[t] = "sync_except"
    /\ IF SyncCatches(exc[t])
       THEN /\ exc' = [exc EXCEPT ![t] = None]
            /\ logged' = [logged EXCEPT ![t] = exc[t]]
            /\ pc' = [pc EXCEPT ![t] = AfterCall(t)]
            /\ result' = Returned(t)
       ELSE /\ exc' = exc
            /\ logged' = logged
            /\ pc' = [pc EXCEPT ![t] = EscapePc(t)]
            /\ result' = Raised(t)
    /\ UNCHANGED <<shared, now, op, batch, t_now, meta, opened, requests,
                   m2m, closes>>

InSync == {"_sync", "sync_meta", "sync_exit", "sync_verify"}
InPoll == {"poll", "disk_poll", "disk_arm", "disk_usage", "disk_exit", "sync"}

\* a fault raised by a statement inside _sync (any thread), or a termination
\* or interrupt request (SystemExit, KeyboardInterrupt: main thread only)
Fault(t) ==
    /\ pc[t] \in InSync
    /\ \E k \in {"Exception"} \cup (IF t = "main" THEN BaseOnly ELSE {}) :
         LeaveSync(t, k)
    /\ UNCHANGED <<sent_meta, exit_event, next_disk_poll_time, auth_token, init_error,
                   
                   now, op,
                   t_now, opened, requests, m2m, closes, logged>>

\* a termination or interrupt request reaching the main thread inside the
\* try block of run_forever, outside _sync
Interrupt ==
    /\ op["main"] = "run_forever"
    /\ pc["main"] \in InPoll \cup {"wait"}
    /\ \E k \in BaseOnly : exc' = [exc EXCEPT !["main"] = k]
    /\ pc' = [pc EXCEPT !["main"] = "finally"]
    /\ batch' = Drop(batch, "main", NoBatch)
    /\ t_now' = Drop(t_now, "main", 0)
    /\ UNCHANGED <<shared, now, op, meta, opened, requests, result, m2m,
                   closes, logged>>

(* ---- set_m2m_identity ---- *)
\* (variant: the association is queued before the authentication)
M2MCalls_AssociateFirst == <<AssociateCall, AuthCall>>
\* the calls set_m2m_identity queues
M2MCalls == <<AuthCall, AssociateCall>>
\* (variant: the identity is returned whatever happened to the batch)
M2MReturn_Regardless(k, ident) == ident
\* the value set_m2m_identity returns when exception k (or None) ends its
\* try block: every except clause ends in None, `else` returns the identity
M2MReturn(k, ident) == IF k = None THEN ident ELSE None

\* the auth-token test (it reads self.disable_sync, which Client does not
\* have), then the batch is opened and filled
SetM2MIdentity(t) ==
    /\ pc[t] = "set_m2m_identity"
    /\ IF auth_token = None
       THEN /\ exc' = [exc EXCEPT ![t] = "AttributeError"]
            /\ result' = [result EXCEPT ![t] = "raised"]
            /\ pc' = [pc EXCEPT ![t] = "idle"]
            /\ UNCHANGED <<batch, opened>>
       ELSE /\ batch' = [batch EXCEPT ![t] = AddCalls(NewBatch(t), M2MCalls)]
            /\ opened' = [opened EXCEPT ![t] = @ + 1]
            /\ pc' = [pc EXCEPT ![t] = "m2m_exit"]
            /\ UNCHANGED <<exc, result>>
    /\ UNCHANGED <<shared, now, op, t_now, meta, requests, m2m, closes, logged>>

\* the end of the `with` block in set_m2m_identity
M2MBatchExit(t) ==
    /\ pc[t] = "m2m_exit"
    /\ \E o \in BatchExit(batch[t]) :
         /\ requests' = [requests EXCEPT ![t] = IF o.srv = None THEN @ ELSE @ + 1]
         /\ IF o.exc = None
            THEN /\ batch' = [batch EXCEPT ![t] = o.batch]
                 /\ pc' = [pc EXCEPT ![t] = "m2m_verify"]
                 /\ UNCHANGED <<result, retval>>
            ELSE /\ batch' = Drop(batch, t, NoBatch)
                 /\ retval' = M2MReturn(o.exc, identity)
                 /\ result' = [result EXCEPT ![t] = "returned"]
                 /\ pc' = [pc EXCEPT ![t] = "idle"]
    /\ UNCHANGED <<shared, now, op, t_now, meta, exc, opened, identity,
                   closes, logged>>

\* the two get_result calls and the except / else clauses
M2MVerify(t) ==
    /\ pc[t] = "m2m_verify"
    /\ LET k == IF GetResult(batch[t], "authenticate_result") # None
                THEN GetResult(batch[t], "authenticate_result")
                ELSE GetResult(batch[t], "associate_result")
       IN  retval' = M2MReturn(k, identity)
    /\ batch' = Drop(batch, t, NoBatch)
    /\ result' = [result EXCEPT ![t] = "returned"]
    /\ pc' = [pc EXCEPT ![t] = "idle"]
    /\ UNCHANGED <<shared, now, op, t_now, meta, exc, opened, requests,
                   identity,
                   closes, logged>>

(* ---- the callers and the environment ---- *)
\* another thread calls poll(), sync() or set_m2m_identity(identity)
ExtCall ==
    /\ ClientExists
    /\ pc["ext"] = "idle"
    /\ \E o \in {"poll", "sync", "set_m2m_identity"} :
         /\ op' = [op EXCEPT !["ext"] = o]
         /\ pc' = [pc EXCEPT !["ext"] = o]
         /\ \E i \in (IF o = "set_m2m_identity" THEN Identities ELSE {""}) :
              identity' = i
    /\ retval' = None
    /\ exc' = [exc EXCEPT !["ext"] = None]
    /\ result' = [result EXCEPT !["ext"] = None]
    /\ opened' = [opened EXCEPT !["ext"] = 0]
    /\ requests' = [requests EXCEPT !["ext"] = 0]
    /\ UNCHANGED <<shared, now, batch, t_now, meta, closes>>
    /\ logged' = [logged EXCEPT !["ext"] = None]

\* some thread sets the stop signal: self.exit_event.set()
SetExit ==
    /\ ClientExists
    /\ ~exit_event
    /\ exit_event' = TRUE
    /\ UNCHANGED <<sent_meta, sync_lock, next_disk_poll_time, auth_token, init_error,
                   
                   now, pc,
                   op, batch, t_now, meta, exc, opened, requests, result,
                   m2m, closes, logged>>

\* time passes
Tick ==
    /\ now < MaxTime
    /\ now' = now + 1
    /\ UNCHANGED <<shared, pc, op, batch, t_now, meta, exc, opened, requests,
                   result, m2m, closes, logged>>

Next ==
    \/ RunForever
    \/ Wait
    \/ RunForeverExit
    \/ Interrupt
    \/ ExtCall
    \/ SetExit
    \/ Tick
    \/ \E t \in Threads :
         \/ Poll(t)
         \/ DiskPollCheck(t)
         \/ DiskPollArm(t)
         \/ DiskUsage(t)
         \/ DiskBatchExit(t)
         \/ Sync(t)
         \/ SyncOpen(t)
         \/ SyncMeta(t)
         \/ SyncBatchExit(t)
         \/ SyncVerify(t)
         \/ SyncExcept(t)
         \/ Fault(t)
         \/ SetM2MIdentity(t)
         \/ M2MBatchExit(t)
         \/ M2MVerify(t)

Spec == Init /\ [][Next]_vars

\* A sync cycle as a function of the flag it starts with: the same client,
\* with self._sent_meta holding either value when the first cycle starts.
InitEitherFlag == \E flag \in BOOLEAN : Constructed(flag)
SpecEitherFlag == InitEitherFlag /\ [][Next]_vars


(* ======================================================================= *)
(* Properties                                                              *)
(* ======================================================================= *)
InCycle(t) == op[t] \in {"run_forever", "poll"}
Built == {"sync_exit", "sync_verify"}

\* C1: when SystemExit or KeyboardInterrupt is raised in a poll of
\* run_forever, the loop is left (no further poll), run_forever returns
\* normally instead of re-raising, and close() has been called exactly once
\* in that invocation (and not before the handlers ran).
C1_TerminationReturnsAndClosesOnce ==
    (op["main"] = "run_forever" /\ exc["main"] \in BaseOnly) =>
        /\ pc["main"] \in {"sync_except", "finally", "idle"}
        /\ pc["main"] # "idle" => closes = 0
        /\ pc["main"] = "idle" => (result["main"] = "returned" /\ closes = 1)
C1_Witness ==
    /\ op["main"] = "run_forever" /\ pc["main"] = "idle"
    /\ exc["main"] = "KeyboardInterrupt"
    /\ result["main"] = "returned" /\ closes = 1

\* C2 (as claimed): a sync cycle that collected the metadata and met no
\* fault (no fault in a response, no exception) ends with the metadata-sent
\* flag true.
C2_MetadataAcknowledged ==
    [][\A t \in Threads :
         (/\ pc[t] = "sync_verify" /\ pc'[t] # "sync_verify"
          /\ meta[t] = "ok" /\ batch[t].faults = {} /\ exc'[t] = None)
         => sent_meta']_vars

\* C3 (as claimed): the batch of a sync cycle is abandoned only when the
\* metadata contribution failed outright; with the metadata already sent it
\* is not abandoned and leaves its scope sent, holding the authenticate call.
C3_AbandonOnlyOnFailure ==
    \A t \in Threads : pc[t] \in Built =>
        /\ batch[t].abandoned => meta[t] = "failed"
        /\ (meta[t] = "skipped" /\ pc[t] = "sync_verify") =>
              (batch[t].sent /\ "authenticate_result" \in Ids(batch[t].calls))

\* C4 (as claimed): run_forever never leaves its loop because the transport
\* was unreachable or a remote call faulted during a poll cycle.
C4_TransportFaultKeepsLoop ==
    (op["main"] = "run_forever" /\ pc["main"] \in {"finally", "idle"}) =>
        exc["main"] \notin {"ServerUnreachableError", "JSONRPCError"}

\* C5 (as claimed): whatever exception reaches sync's except clause, sync
\* returns normally to its caller.
C5_SyncNeverPropagates ==
    [][\A t \in Threads :
         (pc[t] = "sync_except" /\ pc'[t] # "sync_except")
         => (pc'[t] = AfterCall(t) /\ exc'[t] = None)]_vars
\* C5 (amended): an exception of class Exception raised inside the sync
\* cycle is caught and logged by sync(), which returns normally; SystemExit
\* and KeyboardInterrupt are not caught and go on to sync's caller.
C5_SyncCatchesExceptionOnly ==
    [][\A t \in Threads :
         (pc[t] = "sync_except" /\ pc'[t] # "sync_except")
         => IF exc[t] \in BaseOnly
            THEN pc'[t] = EscapePc(t) /\ exc'[t] = exc[t] /\ logged'[t] = logged[t]
            ELSE pc'[t] = AfterCall(t) /\ exc'[t] = None /\ logged'[t] = exc[t]]_vars
C5_Witness ==
    /\ op["ext"] = "sync" /\ pc["ext"] = "idle"
    /\ result["ext"] = "returned" /\ logged["ext"] = "Exception"

\* C6: at most one thread is inside _sync at any time, and it holds the
\* lock: a second cycle's batch is opened only after the first cycle has
\* left _sync; a batch in a cycle is the one its own thread opened.
C6_SyncMutualExclusion ==
    /\ Cardinality({t \in Threads : pc[t] \in InSync}) <= 1
    /\ \A t \in Threads : pc[t] \in InSync => sync_lock = t
    /\ \A t \in Threads : batch[t].open => batch[t].owner = t
C6_Witness ==
    /\ pc["main"] \in {"sync_meta", "sync_exit", "sync_verify"}
    /\ pc["ext"] = "sync"

\* C7 (as claimed): every write of the metadata-sent flag or of the
\* disk-poll due-time is made by a thread that holds the sync lock.
C7_WritesUnderLock ==
    [][(sent_meta' # sent_meta \/ next_disk_poll_time' # next_disk_poll_time)
         => \E t \in Threads : sync_lock = t /\ pc'[t] # pc[t]]_vars

\* C8: the metadata-sent flag changes only in the verification step of a
\* cycle whose batch was sent and whose authenticate and four metadata
\* slots hold no fault; every other step, and so every other cycle, leaves
\* it as it was (false).
C8_FlagOnlyAfterAcknowledgment ==
    [][sent_meta' # sent_meta =>
         /\ ~sent_meta /\ sent_meta'
         /\ \E t \in Threads :
              /\ pc[t] = "sync_verify" /\ pc'[t] # "sync_verify"
              /\ batch[t].sent
              /\ Range(MetaIds) \subseteq Ids(batch[t].calls)
              /\ batch[t].faults \cap ({"authenticate_result"} \cup Range(MetaIds)) = {}
      ]_vars
C8_Witness ==
    \E t \in Threads :
        /\ pc[t] = "sync_verify" /\ meta[t] = "ok"
        /\ batch[t].abandoned /\ ~batch[t].sent /\ ~sent_meta

\* C9 (as claimed): a poll cycle opens no more than one batch.
C9_OneBatchPerCycle ==
    \A t \in Threads : InCycle(t) => opened[t] <= 1
\* C9 (amended): a poll cycle opens one batch for the sync and, when the
\* disk report is due, a separate batch before it, in which disk_poll queues
\* its own authenticate call and the set_disk_space call; the sync batch
\* never holds set_disk_space; a cycle opens at most two batches and makes
\* at most two network requests.
C9_DiskReportInOwnBatch ==
    \A t \in Threads : InCycle(t) =>
        /\ opened[t] <= 2 /\ requests[t] <= 2
        /\ pc[t] = "disk_exit" =>
              (opened[t] = 1 /\ batch[t].calls = <<AuthCall, DiskCall>>)
        /\ pc[t] \in {"sync_meta"} \cup Built =>
              /\ opened[t] \in {1, 2}
              /\ "set_disk_space_result" \notin Ids(batch[t].calls)
              /\ batch[t].calls[1] = AuthCall
C9_Witness ==
    \E t \in Threads :
        /\ InCycle(t) /\ pc[t] = "sync_verify"
        /\ opened[t] = 2 /\ requests[t] = 1

\* C10 (as claimed): set_m2m_identity on a Client without auth token returns
\* None without raising, opens no batch and makes no network request.
C10_NoTokenReturnsNone ==
    (op["ext"] = "set_m2m_identity" /\ pc["ext"] = "idle" /\ auth_token = None) =>
        /\ result["ext"] = "returned" /\ retval = None
        /\ opened["ext"] = 0 /\ requests["ext"] = 0


\* C11: disk_poll takes its report branch if and only if the time it reads
\* is >= next_disk_poll_time; the branch sets next_disk_poll_time to exactly
\* that time + disk_poll_rate_seconds (not the prior due-time + interval)
\* and only then queues the disk calls; a cycle that is not due leaves
\* next_disk_poll_time alone and goes on to sync with no batch opened; no
\* other step writes next_disk_poll_time.
C11_DiskReportIffDue ==
    [][/\ \A t \in Threads :
            /\ (pc[t] = "disk_poll" /\ pc'[t] \in {"disk_arm", "sync"}) =>
                  /\ pc'[t] = "disk_arm" <=> now >= next_disk_poll_time
                  /\ pc'[t] = "disk_arm" => t_now'[t] = now
                  /\ next_disk_poll_time' = next_disk_poll_time
                  /\ opened'[t] = opened[t] /\ batch'[t] = batch[t]
            /\ (pc[t] = "disk_arm" /\ pc'[t] = "disk_usage") =>
                  next_disk_poll_time' = t_now[t] + disk_poll_rate_seconds
            /\ (pc'[t] = "disk_exit" /\ pc[t] # "disk_exit") =>
                  (pc[t] = "disk_usage" /\ DiskCall \in Range(batch'[t].calls))
       /\ next_disk_poll_time' # next_disk_poll_time =>
            \E t \in Threads : pc[t] = "disk_arm" /\ pc'[t] = "disk_usage"
      ]_vars
\* the report was armed at time 1, late for the due-time 0 set at
\* construction: the new due-time is 1 + 2, not 0 + 2
C11_Witness ==
    \E t \in Threads :
        /\ pc[t] = "disk_exit" /\ DiskCall \in Range(batch[t].calls)
        /\ next_disk_poll_time = 1 + disk_poll_rate_seconds


\* C12: in every run_forever invocation close() has been called exactly once
\* when the invocation is over, whichever way the loop was left (stop signal,
\* SystemExit or KeyboardInterrupt, or any other exception escaping poll,
\* which run_forever re-raises), and not at all while the invocation is
\* still polling or waiting; only the step that leaves run_forever calls it.
C12_CloseOncePerRun ==
    [][/\ op["main"] = "run_forever" =>
            /\ pc["main"] # "idle" => closes = 0
            /\ pc["main"] = "idle" =>
                  (closes = 1 /\ result["main"] \in {"returned", "raised"})
       /\ closes' # closes =>
            \/ (pc["main"] = "finally" /\ pc'["main"] = "idle"
                  /\ closes' = closes + 1)
            \/ (pc["main"] = "idle" /\ pc'["main"] = "poll" /\ closes' = 0)
      ]_vars
\* run_forever was left by an exception that is neither SystemExit nor
\* KeyboardInterrupt, and close() ran once
C12_Witness ==
    /\ op["main"] = "run_forever" /\ pc["main"] = "idle"
    /\ result["main"] = "raised" /\ exc["main"] \notin BaseOnly \cup {None}
    /\ closes = 1


\* C13: the stop signal is level-triggered.  Once exit_event is set it stays
\* set; setting it changes nothing else, so a poll cycle in flight goes on
\* unaffected; a poll cycle starts only as the initial cycle of run_forever,
\* which starts whether or not the signal is set, or from the wait when the
\* signal is not set; a wait that finds the signal set leaves the loop with
\* no exception, and run_forever then returns.
C13_StopSignalLevelTriggered ==
    [][/\ exit_event => exit_event'
       /\ exit_event' # exit_event =>
             (pc' = pc /\ op' = op /\ batch' = batch /\ exc' = exc
                /\ next_disk_poll_time' = next_disk_poll_time
                /\ sync_lock' = sync_lock /\ result' = result)
       /\ (pc'["main"] = "poll" /\ pc["main"] # "poll"
             /\ op'["main"] = "run_forever") =>
             \/ pc["main"] = "idle"
             \/ pc["main"] = "wait" /\ ~exit_event
       /\ (pc["main"] = "idle" /\ op'["main"] = "run_forever"
             /\ pc'["main"] # "idle") => pc'["main"] = "poll"
       /\ (pc["main"] = "wait" /\ exit_event /\ pc'["main"] # "wait") =>
             pc'["main"] = "finally"
       /\ (pc["main"] = "finally" /\ pc'["main"] = "idle"
             /\ exc["main"] = None) =>
             (exit_event /\ result'["main"] = "returned")
      ]_vars
\* the signal was set while a cycle of run_forever was inside its sync
\* batch: the cycle is still in flight
C13_Witness ==
    /\ exit_event /\ op["main"] = "run_forever"
    /\ pc["main"] = "sync_verify" /\ closes = 0


\* C14: in every batch the client builds (sync cycle, disk report, identity
\* announcement) the first call added is device.check_auth, and it is added
\* in the step that opens the batch: no batch is ever open without it.
C14_AuthenticateFirst ==
    \A t \in Threads :
        /\ batch[t].open => batch[t].calls # <<>>
        /\ batch[t].calls # <<>> => Head(batch[t].calls) = AuthCall
\* all three kinds of batch, each with its calls queued: the sync batch
\* with the four metadata calls, the disk report and the identity batch
C14_Witness ==
    \/ /\ pc["main"] = "sync_exit" /\ Len(batch["main"].calls) = 5
       /\ pc["ext"] = "m2m_exit" /\ AssociateCall \in Range(batch["ext"].calls)
    \/ /\ pc["main"] = "disk_exit" /\ DiskCall \in Range(batch["main"].calls)
       /\ pc["ext"] = "m2m_exit" /\ AssociateCall \in Range(batch["ext"].calls)


\* C15: with an auth token configured, set_m2m_identity never raises: it
\* opens its batch, and when it ends it has returned the given identity if
\* and only if the batch was sent and neither the authenticate_result nor
\* the associate_result slot holds a fault; with a fault in either slot, or
\* with the server unreachable (the batch's scope raised), it returned None.
C15_IdentityIffAcknowledged ==
    [][\A t \in Threads :
         /\ (pc[t] = "set_m2m_identity" /\ auth_token # None
               /\ pc'[t] # pc[t]) =>
               (pc'[t] = "m2m_exit" /\ exc'[t] = None)
         /\ (pc[t] \in {"m2m_exit", "m2m_verify"} /\ pc'[t] = "idle") =>
               LET acked == /\ pc[t] = "m2m_verify"
                            /\ batch[t].sent
                            /\ batch[t].faults \cap
                                 {"authenticate_result", "associate_result"} = {}
               IN  /\ result'[t] = "returned" /\ exc'[t] = None
                   /\ retval' = IF acked THEN identity ELSE None
                   /\ identity' = identity
      ]_vars
\* the announcement went through: one request, the identity came back
C15_Witness ==
    /\ op["ext"] = "set_m2m_identity" /\ pc["ext"] = "idle"
    /\ auth_token # None /\ requests["ext"] = 1
    /\ result["ext"] = "returned" /\ identity = "id1" /\ retval = identity


\* C16: once _sent_meta is true no step sets it back to false; a sync cycle
\* that runs with the flag true has _sync_meta queue no call, so that its
\* batch never holds a metadata call, and the flag is still true when the
\* cycle ends.
C16_SentIsAbsorbing ==
    [][/\ sent_meta => sent_meta'
       /\ \A t \in Threads :
            /\ (sent_meta /\ pc[t] = "sync_meta" /\ pc'[t] = "sync_exit") =>
                  batch'[t].calls = batch[t].calls
            /\ (sent_meta' /\ pc'[t] \in InSync) =>
                  Ids(batch'[t].calls) \cap Range(MetaIds) = {}
      ]_vars
\* a cycle that ran with the flag true is over: sync() has returned
C16_Witness ==
    /\ sent_meta /\ op["ext"] = "sync" /\ pc["ext"] = "idle"
    /\ result["ext"] = "returned" /\ opened["ext"] = 1


\* C17: when _init raises (reading the configuration, or resolving the
\* serial or auth value), the exception leaves the constructor, so that no
\* Client exists: no method of it is ever running, in particular not
\* run_forever, no poll cycle takes place, no batch is opened and no network
\* request is made.
C17_FailedInitStartsNothing ==
    init_error # None =>
        /\ \A t \in Threads :
              /\ pc[t] = "idle" /\ op[t] = None /\ result[t] = None
              /\ opened[t] = 0 /\ requests[t] = 0 /\ batch[t] = NoBatch
        /\ closes = 0 /\ ~exit_event /\ sync_lock = "free"
\* the constructor raised IOError, and time has passed since
C17_Witness ==
    /\ init_error = "IOError" /\ now = MaxTime
    /\ \A t \in Threads : op[t] = None


\* C18: in a sync cycle whose batch was abandoned before its scope ended,
\* leaving the scope makes no network request, whether one call or five
\* were queued, and leaves the batch unsent; the cycle then verifies
\* nothing: neither get_result('authenticate_result') nor _check_meta runs
\* (no exception of theirs appears), and _sent_meta keeps its value.
C18_AbandonedBatchNotVerified ==
    [][\A t \in Threads :
         /\ (pc[t] = "sync_exit" /\ batch[t].abandoned /\ pc'[t] # pc[t]) =>
               /\ requests'[t] = requests[t]
               /\ sent_meta' = sent_meta
               /\ pc'[t] = "sync_verify" =>
                     (~batch'[t].sent /\ batch'[t].abandoned /\ exc'[t] = None)
         /\ (pc[t] = "sync_verify" /\ batch[t].abandoned /\ pc'[t] # pc[t]) =>
               /\ requests'[t] = requests[t]
               /\ sent_meta' = sent_meta
               /\ exc'[t] \notin {"NotSentError", "JSONRPCError", "AttributeError"}
      ]_vars
\* an abandoned batch holding all five calls has left its scope unsent
C18_Witness ==
    \E t \in Threads :
        /\ pc[t] = "sync_verify" /\ batch[t].abandoned
        /\ Len(batch[t].calls) = 5 /\ ~batch[t].sent /\ requests[t] = 0


\* C19: the sync mutex is held only by a thread that is inside its sync
\* cycle: every way out of the cycle, by return or by an exception raised at
\* any step, releases it.  So whenever no thread is inside a cycle the lock
\* is free, and a thread waiting to enter its cycle can enter.
C19_LockReleasedOnEveryExit ==
    /\ \A t \in Threads : sync_lock = t => pc[t] \in InSync
    /\ sync_lock \in Threads \cup {"free"}
    /\ \A t \in Threads :
          (pc[t] = "sync" /\ \A u \in Threads : pc[u] \notin InSync) =>
              ENABLED Sync(t)
\* the main thread's cycle failed with an exception, which sync() logged;
\* the other thread is waiting to enter its cycle and the lock is free
C19_Witness ==
    /\ op["main"] = "run_forever" /\ pc["main"] = "wait"
    /\ logged["main"] = "Exception"
    /\ pc["ext"] = "sync" /\ sync_lock = "free"


\* C20: a disk_poll that is due advances next_disk_poll_time to its own
\* time + interval before it measures the disk and before it sends its
\* batch; neither the probe nor the send, failing or not, writes the
\* due-time again, so after a failed report the advanced due-time stands;
\* and a later cycle enters the report branch only once the time has reached
\* the due-time in force.
C20_DueTimeAdvancedBeforeReport ==
    [][\A t \in Threads :
         /\ (pc'[t] \in {"disk_usage", "disk_exit"}
               /\ pc[t] \notin {"disk_usage", "disk_exit"}) =>
               /\ pc[t] = "disk_arm" /\ pc'[t] = "disk_usage"
               /\ next_disk_poll_time' = t_now[t] + disk_poll_rate_seconds
               /\ next_disk_poll_time' > t_now[t]
               /\ batch'[t] = NoBatch /\ requests'[t] = 0
         /\ (pc[t] \in {"disk_usage", "disk_exit"} /\ pc'[t] # pc[t]) =>
               next_disk_poll_time' = next_disk_poll_time
         /\ (pc[t] = "disk_poll" /\ pc'[t] \notin {"disk_poll", "sync"}
               /\ exc'[t] = None) =>
               (pc'[t] = "disk_arm" /\ now >= next_disk_poll_time)
      ]_vars
\* the probe of a due cycle has just failed: poll() raised OSError, no batch
\* was opened, and the due-time already stands at this time + interval
C20_Witness ==
    /\ op["ext"] = "poll" /\ pc["ext"] = "idle" /\ result["ext"] = "raised"
    /\ exc["ext"] = "OSError" /\ opened["ext"] = 0
    /\ next_disk_poll_time = now + disk_poll_rate_seconds

====
